---- MODULE Spec2Model ----
(***************************************************************************)
(* GPS field-area tracker: the ESP32 firmware                              *)
(* (src/esp32_gps_area_calculator.ino) and the sensor-data endpoint        *)
(* (src/app/api/sensor-data/route.ts), the area utilities                  *)
(* (src/unnamed/part_002) and the home page (src/app/page.tsx).            *)
(*                                                                         *)
(* Units.  Latitudes and longitudes are integers counting micro-degrees    *)
(* (1e-6 degree), so 0.0001 is 100 and 0.00001 is 10.  Speeds are integers *)
(* counting tenths of a km/h, so 0.5 km/h is 5.  Headings are whole        *)
(* degrees.  Areas on the device, the endpoint and the home page are       *)
(* integers counting millionths of a hectare or of an acre.  The area      *)
(* utilities are applied to boundaries in whole degrees and their areas    *)
(* count hundredths of a hectare.  Arithmetic is exact: the rounding of    *)
(* IEEE doubles is not modelled.                                           *)
(***************************************************************************)
EXTENDS Integers, Sequences, FiniteSets, TLC

(***************************************************************************)
(* Program constants                                                       *)
(***************************************************************************)
\* #define MIN_VALID_SPEED 0.5 (tenths of km/h)
MIN_VALID_SPEED == 5

\* const double MIN_DISTANCE_CHANGE = 0.00001 (micro-degrees)
MIN_DISTANCE_CHANGE == 10

\* the literal 0.0001 of isValidCoordinate and of the POST handler
ORIGIN_RADIUS == 100

(***************************************************************************)
(* Bounds of the model                                                     *)
(***************************************************************************)
\* longest boundary the device vector is allowed to grow to
MaxPoints == 3

\* longest in-memory / database boundary on the server
MaxStored == 2

\* number of rows the fields table may hold
MaxFields == 1

\* number of POST handlers that may be in flight at once
MaxPosts == 1

\* legs longer than this are not squared (2 * SqrtCap^2 stays below 2^31)
SqrtCap == 30000

\* longest boundary handed to the area utilities
MaxRing == 6

\* rows the coordinates table holds at most when whole lists are inserted
MaxRows == 6

(***************************************************************************)
(* Input values                                                            *)
(***************************************************************************)
Pt(la, lo) == [lat |-> la, lon |-> lo]

P0 == Pt(0, 0)                      \* no-fix sentinel
PS == Pt(50, -30)                   \* (0.00005, -0.00003): inside the sentinel
PE == Pt(50, 20000000)              \* small lat, large lon: outside the sentinel
PA == Pt(10000005, 20000003)        \* (10.000005, 20.000003)
PB == Pt(10000000, 20000000)        \* (10.00000, 20.00000): 5.8 from PA
PH == Pt(9999995, 19999996)         \* 6.4 from PB, 12.2 from PA
PD == Pt(10000011, 20000011)        \* exactly 10 from PA
PC == Pt(10010000, 20010000)        \* (10.01, 20.01)

Points == {P0, PS, PE, PA, PB, PH, PD, PC}

\* Speed and course readings: <<speed, course valid, course>>.  The course
\* of an invalid reading is 0, as TinyGPS++ reports before the first course.
Motions == { <<0, FALSE, 0>>, <<4, TRUE, 90>>, <<5, FALSE, 0>>,
             <<5, TRUE, 270>> }

\* What the TinyGPS++ object reports after a sentence has been encoded.
NoFix == [locValid |-> FALSE, lat |-> 0, lon |-> 0, speed |-> 0,
          courseValid |-> FALSE, course |-> 0]

Fixes ==
    {NoFix} \cup
    { [locValid |-> TRUE, lat |-> p.lat, lon |-> p.lon, speed |-> m[1],
       courseValid |-> m[2], course |-> m[3]] : p \in Points, m \in Motions }

\* JavaScript null and undefined, for numbers and for strings
Null == -1

Undefined == -2

UndefinedStr == "undefined"

\* Bodies of live-coordinate POSTs a client of the endpoint may send.
LiveBody(p, sp, hd, st) ==
    [kind |-> "live", lat |-> p.lat, lon |-> p.lon, speed |-> sp,
     heading |-> hd, status |-> st]

LiveRequests ==
    { LiveBody(PA, 5, 90, "moving"),
      LiveBody(PB, 0, 90, "moving"),
      LiveBody(PB, 4, Undefined, "idle"),
      LiveBody(PS, 5, 270, "moving"),
      LiveBody(PC, Undefined, Undefined, UndefinedStr) }

NoRequest == [kind |-> "none"]

GetRequest == [kind |-> "GET"]

PutNewFieldRequest == [kind |-> "PUT", createNewField |-> TRUE]

\* Areas a client may report, in millionths of a hectare: 0, 1.234567 and
\* 0.02.
AreaValues == {0, 1234567, 20000}

\* Bodies of area POSTs: the area, a field name ("" when the body has none)
\* and the whole coordinate list of the sender.
AreaBody(a, name, list) ==
    [kind |-> "area", area |-> a, fieldName |-> name, coordinates |-> list]

AreaRequests ==
    { AreaBody(1234567, "Field 1", <<PA, PC>>),
      AreaBody(0, "", <<P0, PS>>),
      AreaBody(20000, "", <<PS, PB>>) }

PutAreaBody(a) == [kind |-> "PUT", area |-> a]

\* Responses of GET /api/sensor-data the home page may receive (route.ts
\* lines 179-186).
Response(c, e, w, fid) ==
    [coordinates |-> c, esp32Area |-> e, webArea |-> w,
     fieldName |-> "Field 1",
     tractorInfo |-> [speed |-> 5, heading |-> 90, status |-> "moving"],
     fieldId |-> fid]

Responses ==
    { Response(c, e, w, fid) : c \in {<<>>, <<PA, PS, PC>>},
                               e \in AreaValues \cup {Null},
                               w \in AreaValues \cup {Null},
                               fid \in {Null, 1} }

\* Corners of boundaries handed to the area utilities, in whole degrees:
\* the unit square, and a point on the line through two of its corners.
D11 == Pt(1, 1)

D12 == Pt(1, 2)

D22 == Pt(2, 2)

D21 == Pt(2, 1)

D33 == Pt(3, 3)

AreaPoints == {D11, D12, D22, D21, D33}

Boundaries == UNION { [1..n -> AreaPoints] : n \in 0..MaxRing }

\* A row of table coordinates.
Row(fid, p, seq) ==
    [field_id |-> fid, lat |-> p.lat, lon |-> p.lon, sequence_number |-> seq]

\* Bodies of POSTs to /api/coordinates: the rows to insert and a fieldId
\* (Null when the body has none).
CoordinatesBody(rows, fid) ==
    [kind |-> "coordinates", coordinates |-> rows, fieldId |-> fid]

CoordinatesRequests ==
    { CoordinatesBody(<<Row(1, P0, 1)>>, 1),
      CoordinatesBody(<<Row(1, PA, 1), Row(1, PS, 2)>>, 1),
      CoordinatesBody(<<Row(1, PC, 1)>>, 1),
      CoordinatesBody(<<Row(1, PC, 1)>>, Null) }

\* the tags of the algorithm selector, and one it does not know
Algorithms == {"shoelace", "haversine", "convexHull", "delaunay", "other"}

(***************************************************************************)
(* State                                                                   *)
(***************************************************************************)
VARIABLES
    gps,                     \* TinyGPSPlus gps: the latest decoded reading
    coordinates,             \* std::vector<std::pair<double,double>> coordinates
    currentSpeed,            \* double currentSpeed
    currentHeading,          \* double currentHeading
    tractorStatus,           \* String tractorStatus
    isFirstValidCoordinate,  \* bool isFirstValidCoordinate
    lastLat,                 \* double lastLat
    lastLon,                 \* double lastLon
    storedCoordinates,       \* route.ts: let storedCoordinates
    esp32CalculatedArea,     \* route.ts: let esp32CalculatedArea
    lastCalculatedArea,      \* route.ts: let lastCalculatedArea
    fieldName,               \* route.ts: let fieldName
    currentFieldId,          \* route.ts: let currentFieldId
    tractorInfo,             \* route.ts: const tractorInfo
    dbFields,                \* table "fields", in insertion order
    dbCoordinates,           \* table "coordinates", in insertion order
    dbLogs,                  \* table "tractor_logs", in created_at order
    posts,                   \* the POST handlers suspended at an await
    gets,                    \* the GET handler suspended at an await
    request,                 \* the body of the request received last
    coords,                  \* the coordinates argument of an area utility
    call,                    \* the utility that was called: "none", "area", "hull"
    algorithm,               \* the tag given to getAreaCalculationFunction
    calculatedArea,          \* the number the selected function returned
    hull,                    \* the array calculateConvexHull returned
    page,                    \* page.tsx: the state of the Home component
    file,                    \* the GeoJSON document the browser saved last
    upload                   \* upload/page.tsx: the upload page and its uploader

deviceVars == <<gps, coordinates, currentSpeed, currentHeading, tractorStatus,
                isFirstValidCoordinate, lastLat, lastLon>>

memVars == <<storedCoordinates, esp32CalculatedArea, lastCalculatedArea,
             fieldName, currentFieldId, tractorInfo>>

dbVars == <<dbFields, dbCoordinates, dbLogs>>

serverVars == <<memVars, dbVars, posts, gets, request>>

areaVars == <<coords, call, algorithm, calculatedArea, hull>>

pageVars == <<page, file, upload>>

clientVars == <<areaVars, pageVars>>

vars == <<deviceVars, serverVars, clientVars>>

(***************************************************************************)
(* Pure helpers                                                            *)
(***************************************************************************)
\* fabs / Math.abs
Abs(x) == IF x < 0 THEN -x ELSE x

RECURSIVE SqrtSearch(_, _, _)
SqrtSearch(n, lo, hi) ==
    IF lo >= hi THEN lo
    ELSE LET mid == (lo + hi + 1) \div 2
         IN  IF mid * mid <= n THEN SqrtSearch(n, mid, hi)
                               ELSE SqrtSearch(n, lo, mid - 1)

\* sqrt, rounded down to a whole micro-degree; hi is any upper bound of it
Sqrt(n, hi) == SqrtSearch(n, 0, hi)

\* double calculateDistance(lat1, lon1, lat2, lon2):
\*   sqrt(pow(lat2 - lat1, 2) + pow(lon2 - lon1, 2))
\* rounded down to a whole micro-degree.  When a leg is longer than SqrtCap
\* the longer leg is returned instead of the root: it is a lower bound of the
\* root and is itself far above every value the result is compared with.
calculateDistance(lat1, lon1, lat2, lon2) ==
    LET dlat == Abs(lat2 - lat1)
        dlon == Abs(lon2 - lon1)
    IN  IF dlat > SqrtCap \/ dlon > SqrtCap
        THEN (IF dlat > dlon THEN dlat ELSE dlon)
        ELSE Sqrt(dlat * dlat + dlon * dlon, dlat + dlon)

\* NearOrigin testing for the exact point (0, 0) only
NearOrigin_ExactZero(lat, lon) == lat = 0 /\ lon = 0

\* fabs(lat) < 0.0001 && fabs(lon) < 0.0001
NearOrigin(lat, lon) == Abs(lat) < ORIGIN_RADIUS /\ Abs(lon) < ORIGIN_RADIUS

\* StatusOfSpeed with > in place of >=
StatusOfSpeed_Strict(speed) ==
    IF speed > MIN_VALID_SPEED THEN "moving" ELSE "idle"

\* the if/else of processGPSData that sets tractorStatus from the speed
StatusOfSpeed(speed) == IF speed >= MIN_VALID_SPEED THEN "moving" ELSE "idle"

(***************************************************************************)
(* Device: bool isValidCoordinate(double lat, double lon)                  *)
(* The function returns a verdict and updates the filter variables; the    *)
(* operator gives the verdict together with the values the three filter    *)
(* variables have when it returns.                                         *)
(***************************************************************************)
\* isValidCoordinate without the minimum-movement test
isValidCoordinate_NoMovementTest(lat, lon) ==
    IF NearOrigin(lat, lon)
    THEN [ok |-> FALSE, first |-> isFirstValidCoordinate,
          lastLat |-> lastLat, lastLon |-> lastLon]
    ELSE [ok |-> TRUE, first |-> FALSE, lastLat |-> lat, lastLon |-> lon]

\* isValidCoordinate with <= in place of < in the minimum-movement test
isValidCoordinate_Inclusive(lat, lon) ==
    IF NearOrigin(lat, lon)
    THEN [ok |-> FALSE, first |-> isFirstValidCoordinate,
          lastLat |-> lastLat, lastLon |-> lastLon]
    ELSE IF isFirstValidCoordinate
    THEN [ok |-> TRUE, first |-> FALSE, lastLat |-> lat, lastLon |-> lon]
    ELSE IF calculateDistance(lastLat, lastLon, lat, lon) <= MIN_DISTANCE_CHANGE
    THEN [ok |-> FALSE, first |-> isFirstValidCoordinate,
          lastLat |-> lastLat, lastLon |-> lastLon]
    ELSE [ok |-> TRUE, first |-> isFirstValidCoordinate,
          lastLat |-> lat, lastLon |-> lon]

\* isValidCoordinate that never clears isFirstValidCoordinate
isValidCoordinate_KeepsFirstFlag(lat, lon) ==
    IF NearOrigin(lat, lon)
    THEN [ok |-> FALSE, first |-> isFirstValidCoordinate,
          lastLat |-> lastLat, lastLon |-> lastLon]
    ELSE IF isFirstValidCoordinate
    THEN [ok |-> TRUE, first |-> TRUE, lastLat |-> lat, lastLon |-> lon]
    ELSE IF calculateDistance(lastLat, lastLon, lat, lon) < MIN_DISTANCE_CHANGE
    THEN [ok |-> FALSE, first |-> isFirstValidCoordinate,
          lastLat |-> lastLat, lastLon |-> lastLon]
    ELSE [ok |-> TRUE, first |-> isFirstValidCoordinate,
          lastLat |-> lat, lastLon |-> lon]

\* isValidCoordinate that moves lastLat/lastLon to a rejected candidate
isValidCoordinate_DriftOnReject(lat, lon) ==
    IF NearOrigin(lat, lon)
    THEN [ok |-> FALSE, first |-> isFirstValidCoordinate,
          lastLat |-> lastLat, lastLon |-> lastLon]
    ELSE IF isFirstValidCoordinate
    THEN [ok |-> TRUE, first |-> FALSE, lastLat |-> lat, lastLon |-> lon]
    ELSE IF calculateDistance(lastLat, lastLon, lat, lon) < MIN_DISTANCE_CHANGE
    THEN [ok |-> FALSE, first |-> isFirstValidCoordinate,
          lastLat |-> lat, lastLon |-> lon]
    ELSE [ok |-> TRUE, first |-> isFirstValidCoordinate,
          lastLat |-> lat, lastLon |-> lon]

isValidCoordinate(lat, lon) ==
    IF NearOrigin(lat, lon)
    THEN [ok |-> FALSE, first |-> isFirstValidCoordinate,
          lastLat |-> lastLat, lastLon |-> lastLon]
    ELSE IF isFirstValidCoordinate
    THEN [ok |-> TRUE, first |-> FALSE, lastLat |-> lat, lastLon |-> lon]
    ELSE IF calculateDistance(lastLat, lastLon, lat, lon) < MIN_DISTANCE_CHANGE
    THEN [ok |-> FALSE, first |-> isFirstValidCoordinate,
          lastLat |-> lastLat, lastLon |-> lastLon]
    ELSE [ok |-> TRUE, first |-> isFirstValidCoordinate,
          lastLat |-> lat, lastLon |-> lon]

\* headingAfter reading gps.course.deg() whether or not the course is valid
headingAfter_Unconditional(fix) == fix.course

\* processGPSData lines 123-125: the heading follows a valid course only
headingAfter(fix) == IF fix.courseValid THEN fix.course ELSE currentHeading

\* storeGPSCoordinates pushing the pair as {lon, lat}
storeGPSCoordinates_Swapped(lat, lon) == Append(coordinates, Pt(lon, lat))

\* void storeGPSCoordinates(double lat, double lon): coordinates.push_back
storeGPSCoordinates(lat, lon) == Append(coordinates, Pt(lat, lon))

(***************************************************************************)
(* Device: one decoded sentence, loop() lines 93-96 and processGPSData().  *)
(***************************************************************************)
processGPSData(fix) ==
    /\ gps' = fix
    /\ IF fix.locValid
       THEN LET v == isValidCoordinate(fix.lat, fix.lon)
            IN  /\ v.ok => Len(coordinates) < MaxPoints
                /\ currentSpeed' = fix.speed
                /\ currentHeading' = headingAfter(fix)
                /\ tractorStatus' = StatusOfSpeed(fix.speed)
                /\ isFirstValidCoordinate' = v.first
                /\ lastLat' = v.lastLat
                /\ lastLon' = v.lastLon
                /\ coordinates' = IF v.ok
                                  THEN storeGPSCoordinates(fix.lat, fix.lon)
                                  ELSE coordinates
       ELSE UNCHANGED <<coordinates, currentSpeed, currentHeading,
                        tractorStatus, isFirstValidCoordinate, lastLat,
                        lastLon>>


(***************************************************************************)
(* Server: src/app/api/sensor-data/route.ts.                               *)
(* A handler runs without interruption between two awaits.  Each database *)
(* call is one step: the call takes effect, and the code up to the next    *)
(* await runs, when the handler resumes; the arguments of the next call    *)
(* are evaluated at the end of that step (fid is the currentFieldId the    *)
(* pending call was given).                                                *)
(***************************************************************************)
PostIds == 1..MaxPosts

\* one more handler, for the specification in which two live POSTs race
RaceIds == 1..(MaxPosts + 1)

IdlePost == [pc |-> "idle"]

\* rows of table coordinates with field_id = fid, in table order
CoordRowsOf(fid) == SelectSeq(dbCoordinates, LAMBDA r : r.field_id = fid)

\* rows of table tractor_logs with field_id = fid, in created_at order
LogRowsOf(fid) == SelectSeq(dbLogs, LAMBDA r : r.field_id = fid)

\* .order("sequence_number", { ascending: false }).limit(1), then line 60
NextSeqOf(fid) ==
    LET rows == CoordRowsOf(fid)
    IN  IF Len(rows) > 0
        THEN 1 + CHOOSE m \in {rows[i].sequence_number : i \in 1..Len(rows)} :
                   \A i \in 1..Len(rows) : rows[i].sequence_number <= m
        ELSE 1

\* .order("sequence_number", { ascending: true }): every order of the rows
\* in which sequence numbers do not decrease (rows with equal numbers may
\* come back in either order)
OrderedBySequence(rows) ==
    LET n == Len(rows)
        perms == { f \in [1..n -> 1..n] :
                     /\ \A i, j \in 1..n : i # j => f[i] # f[j]
                     /\ \A i \in 1..n : i < n =>
                          rows[f[i]].sequence_number
                            <= rows[f[i + 1]].sequence_number }
    IN  { [i \in 1..n |-> rows[f[i]]] : f \in perms }

\* coordinates.map((c) => ({ lat: c.lat, lon: c.lon }))
MapLatLon(rows) == [i \in 1..Len(rows) |-> Pt(rows[i].lat, rows[i].lon)]

\* lines 46-48: the three conditional assignments to tractorInfo
UpdateTractorInfo(info, data) ==
    [speed   |-> IF data.speed # Undefined THEN data.speed ELSE info.speed,
     heading |-> IF data.heading # Undefined THEN data.heading
                                             ELSE info.heading,
     status  |-> IF data.status # UndefinedStr THEN data.status
                                               ELSE info.status]

\* lines 71-78: the row written to tractor_logs (x || default)
LogRow(fid, data) ==
    [field_id |-> fid,
     speed    |-> IF data.speed = Undefined \/ data.speed = 0
                  THEN 0 ELSE data.speed,
     heading  |-> IF data.heading = Undefined \/ data.heading = 0
                  THEN 0 ELSE data.heading,
     status   |-> IF data.status = UndefinedStr THEN "idle" ELSE data.status,
     lat      |-> data.lat,
     lon      |-> data.lon]

\* POST, lines 27-51: a live-coordinate body arrives
PostLive(h, data) ==
    /\ posts[h].pc = "idle"
    /\ request' = data
    /\ IF NearOrigin(data.lat, data.lon)
       THEN UNCHANGED <<memVars, dbVars, posts, gets>>
       ELSE /\ Len(storedCoordinates) < MaxStored
            /\ Len(dbCoordinates) < MaxStored
            /\ storedCoordinates' =
                   Append(storedCoordinates, Pt(data.lat, data.lon))
            /\ tractorInfo' = UpdateTractorInfo(tractorInfo, data)
            /\ posts' = IF currentFieldId # Null
                        THEN [posts EXCEPT ![h] = [pc |-> "select",
                                                   data |-> data,
                                                   fid |-> currentFieldId]]
                        ELSE posts
            /\ UNCHANGED <<esp32CalculatedArea, lastCalculatedArea, fieldName,
                           currentFieldId, dbVars, gets>>

\* POST, lines 53-60: the select of the largest sequence number returns
PostSelectMaxSeq(h) ==
    /\ posts[h].pc = "select"
    /\ posts' = [posts EXCEPT ![h] = [pc |-> "insert",
                                      data |-> posts[h].data,
                                      nextSeq |-> NextSeqOf(posts[h].fid),
                                      fid |-> currentFieldId]]
    /\ UNCHANGED <<memVars, dbVars, gets, request>>

\* POST, lines 63-68: the insert into coordinates returns
PostInsertCoordinate(h) ==
    /\ posts[h].pc = "insert"
    /\ dbCoordinates' = Append(dbCoordinates,
                               [field_id |-> posts[h].fid,
                                lat |-> posts[h].data.lat,
                                lon |-> posts[h].data.lon,
                                sequence_number |-> posts[h].nextSeq])
    /\ posts' = [posts EXCEPT ![h] = [pc |-> "log",
                                      data |-> posts[h].data,
                                      fid |-> currentFieldId]]
    /\ UNCHANGED <<memVars, dbFields, dbLogs, gets, request>>

\* POST, lines 71-85: the insert into tractor_logs returns, response sent
PostInsertLog(h) ==
    /\ posts[h].pc = "log"
    /\ dbLogs' = Append(dbLogs, LogRow(posts[h].fid, posts[h].data))
    /\ posts' = [posts EXCEPT ![h] = IdlePost]
    /\ UNCHANGED <<memVars, dbFields, dbCoordinates, gets, request>>

\* GET, lines 135-141 and 152-157: the request arrives
GetBegin ==
    /\ gets.pc = "idle"
    /\ request' = GetRequest
    /\ gets' = IF currentFieldId = Null
               THEN [pc |-> "fields"]
               ELSE [pc |-> "coordinates", fid |-> currentFieldId]
    /\ UNCHANGED <<memVars, dbVars, posts>>

\* GET, lines 136-157: the select of the active field returns
GetActiveField ==
    /\ gets.pc = "fields"
    /\ LET active == SelectSeq(dbFields, LAMBDA f : f.is_active)
       IN  IF Len(active) > 0
           THEN \E i \in 1..Len(active) :
                  /\ currentFieldId' = active[i].id
                  /\ fieldName' = active[i].name
                  /\ esp32CalculatedArea' = active[i].esp32_area
                  /\ lastCalculatedArea' = active[i].web_area
                  /\ gets' = [pc |-> "coordinates", fid |-> active[i].id]
           ELSE /\ UNCHANGED <<currentFieldId, fieldName, esp32CalculatedArea,
                               lastCalculatedArea>>
                /\ gets' = IF currentFieldId # Null
                           THEN [pc |-> "coordinates", fid |-> currentFieldId]
                           ELSE [pc |-> "idle"]
    /\ UNCHANGED <<storedCoordinates, tractorInfo, dbVars, posts, request>>

\* GET, lines 153-169: the select of the field's coordinates returns
GetCoordinates ==
    /\ gets.pc = "coordinates"
    /\ LET rows == CoordRowsOf(gets.fid)
       IN  IF Len(rows) > 0
           THEN \E sorted \in OrderedBySequence(rows) :
                    storedCoordinates' = MapLatLon(sorted)
           ELSE UNCHANGED storedCoordinates
    /\ gets' = [pc |-> "logs", fid |-> currentFieldId]
    /\ UNCHANGED <<esp32CalculatedArea, lastCalculatedArea, fieldName,
                   currentFieldId, tractorInfo, dbVars, posts, request>>

\* GET, lines 164-185: the select of the latest log returns, response sent
GetTractorLogs ==
    /\ gets.pc = "logs"
    /\ LET logs == LogRowsOf(gets.fid)
       IN  IF Len(logs) > 0
           THEN tractorInfo' = [speed   |-> logs[Len(logs)].speed,
                                heading |-> logs[Len(logs)].heading,
                                status  |-> logs[Len(logs)].status]
           ELSE UNCHANGED tractorInfo
    /\ gets' = [pc |-> "idle"]
    /\ UNCHANGED <<storedCoordinates, esp32CalculatedArea, lastCalculatedArea,
                   fieldName, currentFieldId, dbVars, posts, request>>

\* POST, lines 88-112: a body with an area and a coordinate list arrives
PostArea(data) ==
    /\ request' = data
    /\ esp32CalculatedArea' = data.area
    /\ LET filteredCoordinates ==
               SelectSeq(data.coordinates,
                         LAMBDA c : ~NearOrigin(c.lat, c.lon))
       IN  storedCoordinates' = IF Len(filteredCoordinates) > 0
                                THEN filteredCoordinates
                                ELSE storedCoordinates
    /\ fieldName' = IF data.fieldName # "" THEN data.fieldName ELSE fieldName
    /\ UNCHANGED <<lastCalculatedArea, currentFieldId, tractorInfo, dbVars,
                   posts, gets>>

\* PUT, lines 193-205: { area }.  Nothing follows the update of the fields
\* row in the handler, so the update is part of the same step.
PutArea(a) ==
    /\ request' = PutAreaBody(a)
    /\ lastCalculatedArea' = a
    /\ dbFields' = IF currentFieldId # Null
                   THEN [i \in 1..Len(dbFields) |->
                            IF dbFields[i].id = currentFieldId
                            THEN [dbFields[i] EXCEPT !.web_area = a]
                            ELSE dbFields[i]]
                   ELSE dbFields
    /\ UNCHANGED <<storedCoordinates, esp32CalculatedArea, fieldName,
                   currentFieldId, tractorInfo, dbCoordinates, dbLogs, posts,
                   gets>>

NewFieldCreated_KeepsAreas ==
    /\ Len(dbFields) < MaxFields
    /\ dbFields' = Append(dbFields, [id |-> Len(dbFields) + 1,
                                     name |-> "New Field",
                                     esp32_area |-> Null, web_area |-> Null,
                                     is_active |-> TRUE])
    /\ currentFieldId' = Len(dbFields) + 1
    /\ fieldName' = "New Field"
    /\ storedCoordinates' = <<>>
    /\ UNCHANGED <<esp32CalculatedArea, lastCalculatedArea>>

\* lines 250-257: the insert returned the new row
NewFieldCreated ==
    /\ Len(dbFields) < MaxFields
    /\ LET newField == [id |-> Len(dbFields) + 1, name |-> "New Field",
                        esp32_area |-> Null, web_area |-> Null,
                        is_active |-> TRUE]
       IN  /\ dbFields' = Append(dbFields, newField)
           /\ currentFieldId' = newField.id
           /\ fieldName' = newField.name
    /\ storedCoordinates' = <<>>
    /\ esp32CalculatedArea' = Null
    /\ lastCalculatedArea' = Null

\* PUT, lines 241-264: { createNewField } without a fieldName.  When the
\* insert fails newField is null and the handler answers without a reset.
PutCreateNewField ==
    /\ request' = PutNewFieldRequest
    /\ \/ NewFieldCreated
       \/ UNCHANGED <<storedCoordinates, esp32CalculatedArea,
                      lastCalculatedArea, fieldName, currentFieldId, dbFields>>
    /\ UNCHANGED <<tractorInfo, dbCoordinates, dbLogs, posts, gets>>

(***************************************************************************)
(* Device to server: loop() lines 107-114 and sendLiveCoordinates().  The  *)
(* body carries the raw reading of the gps object, not the last stored     *)
(* point, together with the motion variables.                              *)
(***************************************************************************)
sendLiveCoordinates(h) ==
    /\ gps.locValid
    /\ PostLive(h, LiveBody(Pt(gps.lat, gps.lon), currentSpeed,
                            currentHeading, tractorStatus))
    /\ UNCHANGED <<deviceVars, clientVars>>

(***************************************************************************)
(* Device: the button, loop() lines 99-104.                                *)
(* calculateArea() sums x1*y2 - x2*y1 over the ring of stored points and   *)
(* returns |sum| / 2 * 111.32 * 111.32 * 100 hectares.  The sum of a ring  *)
(* does not change when every point is shifted by the same amount, so it   *)
(* is taken on the distances to the first point, which keeps the products  *)
(* within 32-bit integers.  A sum of s square micro-degrees is            *)
(* s * 0.61960712 millionths of a hectare; the result is cut to a whole    *)
(* number of them.                                                         *)
(***************************************************************************)
RingSum(c) ==
    LET n == Len(c)
        x(i) == c[i].lat - c[1].lat
        y(i) == c[i].lon - c[1].lon
        term(i) == LET j == (i % n) + 1 IN x(i) * y(j) - x(j) * y(i)
        S[i \in 0..n] == IF i = 0 THEN 0 ELSE S[i - 1] + term(i)
    IN  S[n]

MicroHectares(s) ==
    LET s1 == s \div 10000
        s0 == s % 10000
    IN  s1 * 6196 + (s1 * 712 + s0 * 6196 + (s0 * 712) \div 10000) \div 10000

\* every point lies within SqrtCap micro-degrees of the first one
WithinReach(c) ==
    \A i \in 1..Len(c) : /\ Abs(c[i].lat - c[1].lat) <= SqrtCap
                         /\ Abs(c[i].lon - c[1].lon) <= SqrtCap

calculateArea_NotHalved ==
    IF Len(coordinates) < 3 THEN 0
    ELSE MicroHectares(2 * Abs(RingSum(coordinates)))

calculateArea ==
    IF Len(coordinates) < 3 THEN 0 ELSE MicroHectares(Abs(RingSum(coordinates)))

\* lines 289-326: the body carries the area, the field name of the firmware
\* and every point of the device's list; six decimals pass the JSON writer
\* unchanged
sendAreaData(area) ==
    /\ PostArea(AreaBody(area, "Field 1", coordinates))
    /\ UNCHANGED <<deviceVars, clientVars>>

\* A DELETE with its fieldId parameter (Null when the URL has none) and
\* the status of the answer it was given.
DeleteExchange(fid, status) ==
    [kind |-> "DELETE", fieldId |-> fid, status |-> status]

DeleteResets_Always(fid) == TRUE

\* DELETE, line 316: the memory is reset for the current field only
DeleteResets(fid) == currentFieldId = fid

\* DELETE, lines 285-336.  Nothing happens between the arrival of the
\* request and its one database call, so the handler is one step: 400
\* without a fieldId, 500 when the delete fails, and otherwise the rows of
\* the field are gone and the memory is reset if the field is the current
\* one.
Delete(fid) ==
    IF fid = Null
    THEN /\ request' = DeleteExchange(fid, 400)
         /\ UNCHANGED <<memVars, dbVars, posts, gets>>
    ELSE \/ /\ request' = DeleteExchange(fid, 500)
            /\ UNCHANGED <<memVars, dbVars, posts, gets>>
         \/ /\ request' = DeleteExchange(fid, 200)
            /\ dbCoordinates' =
                   SelectSeq(dbCoordinates, LAMBDA r : r.field_id # fid)
            /\ IF DeleteResets(fid)
               THEN /\ storedCoordinates' = <<>>
                    /\ esp32CalculatedArea' = Null
                    /\ lastCalculatedArea' = Null
               ELSE UNCHANGED <<storedCoordinates, esp32CalculatedArea,
                                lastCalculatedArea>>
            /\ UNCHANGED <<fieldName, currentFieldId, tractorInfo, dbFields,
                           dbLogs, posts, gets>>

\* Body of the PUT of saveToDatabase: createNewField and a fieldName.
PutNamedFieldBody(name) ==
    [kind |-> "PUT", createNewField |-> TRUE, fieldName |-> name]

\* PUT, lines 207-239: a body with a fieldName, whether or not it carries
\* createNewField, takes this branch, which is tested first.  With a
\* current field its row is renamed; without one a field is inserted and
\* becomes the current field, and the points in memory are inserted as
\* its rows 1..n.  The results of the update and of the second insert are
\* ignored; when the insert of the field fails no field is current.  The
\* handler is taken in one step, no other handler running between its
\* database calls.
PutFieldName(name) ==
    /\ request' = PutNamedFieldBody(name)
    /\ fieldName' = name
    /\ IF currentFieldId # Null
       THEN /\ \/ dbFields' = [i \in 1..Len(dbFields) |->
                                  IF dbFields[i].id = currentFieldId
                                  THEN [dbFields[i] EXCEPT !.name = name]
                                  ELSE dbFields[i]]
               \/ UNCHANGED dbFields
            /\ UNCHANGED <<currentFieldId, dbCoordinates>>
       ELSE \/ /\ Len(dbFields) < MaxFields
               /\ LET id == Len(dbFields) + 1
                      rows == [i \in 1..Len(storedCoordinates) |->
                                 [field_id |-> id,
                                  lat |-> storedCoordinates[i].lat,
                                  lon |-> storedCoordinates[i].lon,
                                  sequence_number |-> i]]
                  IN  /\ dbFields' =
                            Append(dbFields,
                                   [id |-> id, name |-> name,
                                    esp32_area |-> Null, web_area |-> Null,
                                    is_active |-> TRUE])
                      /\ currentFieldId' = id
                      /\ \/ /\ Len(dbCoordinates) + Len(rows) <= MaxRows
                            /\ dbCoordinates' = dbCoordinates \o rows
                         \/ UNCHANGED dbCoordinates
            \/ UNCHANGED <<dbFields, currentFieldId, dbCoordinates>>
    /\ UNCHANGED <<storedCoordinates, esp32CalculatedArea, lastCalculatedArea,
                   tractorInfo, dbLogs, posts, gets>>

(***************************************************************************)
(* POST /api/coordinates: src/unnamed/part_002 lines 9-52.                 *)
(***************************************************************************)
\* The handler answers 400 to a body without fieldId; otherwise it inserts
\* the rows of the body as they are and answers 500 when the insert fails.
\* It reads and writes none of the variables of route.ts.
PostCoordinates(data) ==
    /\ request' = data
    /\ IF data.fieldId = Null
       THEN UNCHANGED dbCoordinates
       ELSE \/ /\ Len(dbCoordinates) + Len(data.coordinates) <= MaxRows
               /\ dbCoordinates' = dbCoordinates \o data.coordinates
            \/ UNCHANGED dbCoordinates
    /\ UNCHANGED <<memVars, dbFields, dbLogs, posts, gets>>

(***************************************************************************)
(* Area utilities: src/unnamed/part_002 (utils/area-calculations).         *)
(* An area is |sum| / 2 * 111.32 * 111.32 * 100 hectares for a sum in      *)
(* square degrees, that is |sum| * 11132 * 11132 / 2 hundredths of a       *)
(* hectare.                                                                *)
(***************************************************************************)
\* lines 61-66: the loop of calculateShoelaceArea
ShoelaceSum(c) ==
    LET n == Len(c)
        S[i \in 0..n] ==
            IF i = 0 THEN 0
            ELSE LET j == (i % n) + 1
                 IN  S[i - 1] + c[i].lat * c[j].lon - c[j].lat * c[i].lon
    IN  S[n]

OpenSum(c) ==
    LET S[i \in 0..Len(c) - 1] ==
            IF i = 0 THEN 0
            ELSE S[i - 1] + c[i].lat * c[i + 1].lon - c[i + 1].lat * c[i].lon
    IN  S[Len(c) - 1]

calculateShoelaceArea_OpenUnguarded(c) ==
    IF Len(c) < 2 THEN 0
    ELSE Abs(OpenSum(c)) * ((11132 * 11132) \div 2)

calculateShoelaceArea_Open(c) ==
    IF Len(c) < 3 THEN 0
    ELSE Abs(OpenSum(c)) * ((11132 * 11132) \div 2)

calculateShoelaceArea_RoundDegree(c) ==
    IF Len(c) < 3 THEN 0
    ELSE Abs(ShoelaceSum(c)) * ((11100 * 11100) \div 2)

calculateShoelaceArea(c) ==
    IF Len(c) < 3 THEN 0
    ELSE Abs(ShoelaceSum(c)) * ((11132 * 11132) \div 2)

\* lines 90-116: calculateHaversineArea returns 0 below three points.  Its
\* fan of great-circle triangles needs sin, cos and atan2 and is left out:
\* the function is applied to shorter boundaries only.
calculateHaversineArea(c) == CASE Len(c) < 3 -> 0

isLeftTurn_Weak(p1, p2, p3) ==
    (p2.lon - p1.lon) * (p3.lat - p1.lat)
        - (p2.lat - p1.lat) * (p3.lon - p1.lon) >= 0

isLeftTurn_Right(p1, p2, p3) ==
    (p2.lon - p1.lon) * (p3.lat - p1.lat)
        - (p2.lat - p1.lat) * (p3.lon - p1.lon) < 0

isLeftTurn(p1, p2, p3) ==
    (p2.lon - p1.lon) * (p3.lat - p1.lat)
        - (p2.lat - p1.lat) * (p3.lon - p1.lon) > 0

\* lines 125-134: the index of lowestPoint, the first point of the lowest
\* latitude and, among those, of the lowest longitude
LowestIndex(c) ==
    LET L[i \in 1..Len(c)] ==
            IF i = 1 THEN 1
            ELSE LET l == L[i - 1]
                 IN  IF \/ c[i].lat < c[l].lat
                        \/ /\ c[i].lat = c[l].lat
                           /\ c[i].lon < c[l].lon
                     THEN i ELSE l
    IN  L[Len(c)]

\* The direction of p seen from low.  No point lies below low, or left of
\* it at its latitude, so atan2 is in [0, pi) and two angles compare as the
\* cross product of the directions; atan2(0, 0) is 0, the angle of (0, 1).
Direction(p, low) ==
    IF p.lat = low.lat /\ p.lon = low.lon
    THEN [dlat |-> 0, dlon |-> 1]
    ELSE [dlat |-> p.lat - low.lat, dlon |-> p.lon - low.lon]

\* the sign of angleA - angleB
AngleOrder(a, b, low) ==
    LET da == Direction(a, low)
        db == Direction(b, low)
        cross == da.dlon * db.dlat - da.dlat * db.dlon
    IN  IF cross > 0 THEN -1 ELSE IF cross < 0 THEN 1 ELSE 0

\* the square of the distance to low; distA - distB has the sign of the
\* difference of the squares
Dist2(p, low) ==
    (p.lat - low.lat) * (p.lat - low.lat)
        + (p.lon - low.lon) * (p.lon - low.lon)

Compare_AngleOnly(c, l, i, j) ==
    IF i = l THEN -1
    ELSE IF j = l THEN 1
    ELSE AngleOrder(c[i], c[j], c[l])

\* lines 137-153: the comparator, on the indices i and j of two elements;
\* a === lowestPoint compares references, so only the element at index l
\* is lowestPoint, not its copies
Compare(c, l, i, j) ==
    IF i = l THEN -1
    ELSE IF j = l THEN 1
    ELSE LET angles == AngleOrder(c[i], c[j], c[l])
              d == Dist2(c[i], c[l]) - Dist2(c[j], c[l])
         IN  IF angles = 0
             THEN IF d < 0 THEN -1 ELSE IF d > 0 THEN 1 ELSE 0
             ELSE angles

\* Array.prototype.sort is stable: an element goes before the first one it
\* is smaller than.  The result is the sequence of sorted indices.
SortedIndices(c, l) ==
    LET Insert(sorted, x) ==
            LET P[m \in 1..Len(sorted) + 1] ==
                    IF m > Len(sorted) THEN m
                    ELSE IF Compare(c, l, x, sorted[m]) < 0 THEN m
                    ELSE P[m + 1]
                k == P[1]
            IN  SubSeq(sorted, 1, k - 1) \o <<x>> \o SubSeq(sorted, k,
                                                             Len(sorted))
        S[i \in 0..Len(c)] == IF i = 0 THEN <<>> ELSE Insert(S[i - 1], i)
    IN  S[Len(c)]

\* lines 159-161: the while loop that pops the hull
RECURSIVE PopNonLeft(_, _)
PopNonLeft(h, p) ==
    IF Len(h) >= 2 /\ ~isLeftTurn(h[Len(h) - 1], h[Len(h)], p)
    THEN PopNonLeft(SubSeq(h, 1, Len(h) - 1), p)
    ELSE h

calculateConvexHull(c) ==
    IF Len(c) <= 3 THEN c
    ELSE LET order == SortedIndices(c, LowestIndex(c))
             sortedPoints == [i \in 1..Len(c) |-> c[order[i]]]
             H[i \in 2..Len(c)] ==
                 IF i = 2 THEN <<sortedPoints[1], sortedPoints[2]>>
                 ELSE Append(PopNonLeft(H[i - 1], sortedPoints[i]),
                             sortedPoints[i])
         IN  H[Len(c)]

calculateConvexHullArea(c) == calculateShoelaceArea(calculateConvexHull(c))

calculateDelaunayArea_Raw(c) == calculateShoelaceArea(c)

\* lines 182-207: the interior points are found and not used
calculateDelaunayArea(c) ==
    IF Len(c) < 3 THEN 0
    ELSE LET h == calculateConvexHull(c)
             interiorPoints ==
                 SelectSeq(c, LAMBDA point :
                     ~\E k \in 1..Len(h) : /\ h[k].lat = point.lat
                                           /\ h[k].lon = point.lon)
             totalArea == calculateShoelaceArea(h)
         IN  IF Len(interiorPoints) = 0 THEN totalArea ELSE totalArea

\* lines 210-222: the function the selector returns, applied to c
getAreaCalculationFunction(alg, c) ==
    CASE alg = "haversine" -> calculateHaversineArea(c)
      [] alg = "convexHull" -> calculateConvexHullArea(c)
      [] alg = "delaunay" -> calculateDelaunayArea(c)
      [] OTHER -> calculateShoelaceArea(c)

coordinatesAfterHull_SortedInPlace(c) ==
    IF Len(c) <= 3 THEN c
    ELSE LET order == SortedIndices(c, LowestIndex(c))
         IN  [i \in 1..Len(c) |-> c[order[i]]]

\* What calculateConvexHull leaves in the array it was given.  The sort of
\* line 137 runs on the copy [...coordinates], pop and push (lines 160-162)
\* on the new array hull, and below four points the argument is returned
\* as it is: no line writes to the argument.
coordinatesAfterHull(c) == c

\* What a selected area function leaves in the array it was given: the
\* shoelace and haversine loops only read, filter (line 190) builds a new
\* array, and the hull is the only other call.
coordinatesAfter(alg, c) ==
    CASE alg = "convexHull" -> coordinatesAfterHull(c)
      [] alg = "delaunay" -> IF Len(c) < 3 THEN c ELSE coordinatesAfterHull(c)
      [] OTHER -> c

\* a caller selects an algorithm and applies the function to coords
CalculateWith(alg) ==
    /\ call = "none"
    /\ alg = "haversine" => Len(coords) < 3
    /\ call' = "area"
    /\ algorithm' = alg
    /\ calculatedArea' = getAreaCalculationFunction(alg, coords)
    /\ coords' = coordinatesAfter(alg, coords)
    /\ UNCHANGED hull

\* a caller asks for the hull of coords
HullOfBoundary ==
    /\ call = "none"
    /\ call' = "hull"
    /\ hull' = calculateConvexHull(coords)
    /\ coords' = coordinatesAfterHull(coords)
    /\ UNCHANGED <<algorithm, calculatedArea>>

(***************************************************************************)
(* Home page: src/app/page.tsx.  page is the state of the component; an    *)
(* event handler reads it and sets the next one in one step.               *)
(***************************************************************************)
\* The quotient and the remainder of x * m by d, digit by digit of x, so
\* that no intermediate value leaves the 32-bit integers.
RECURSIVE MulDiv(_, _, _)
MulDiv(x, m, d) ==
    IF x = 0 THEN [q |-> 0, r |-> 0]
    ELSE LET hi == MulDiv(x \div 10, m, d)
             t == 10 * hi.r + (x % 10) * m
         IN  [q |-> 10 * hi.q + t \div d, r |-> t % d]

\* Number.parseFloat((v * num / den).toFixed(4)): the product rounded to
\* four decimals, that is to a multiple of 100 millionths
ToFixed4(v, num, den) ==
    LET qr == MulDiv(v, num, den * 100)
    IN  100 * (qr.q + IF 2 * qr.r >= den * 100 THEN 1 ELSE 0)

\* lines 261-262: the factor is 2.47105 towards acres and 1 / 2.47105
\* towards hectares
ConvertTo(newUnit, v) ==
    IF newUnit = "acres" THEN ToFixed4(v, 247105, 100000)
                         ELSE ToFixed4(v, 100000, 247105)

\* lines 85-126: the response of the GET has arrived
fetchData(data) ==
    page' = [page EXCEPT
               !.coordinates = data.coordinates,
               !.filteredCoordinates =
                   SelectSeq(data.coordinates,
                             LAMBDA c : ~NearOrigin(c.lat, c.lon)),
               !.esp32Area = IF data.esp32Area # Null THEN data.esp32Area
                                                      ELSE @,
               !.webArea = IF data.webArea # Null THEN data.webArea ELSE @,
               !.fieldName = IF data.fieldName # "" THEN data.fieldName
                                                    ELSE @,
               !.newFieldName = IF data.fieldName # "" THEN data.fieldName
                                                       ELSE @,
               !.tractorInfo = data.tractorInfo,
               !.currentFieldId = IF data.fieldId # Null THEN data.fieldId
                                                         ELSE @]

\* lines 254-269: the state after toggleAreaUnit has run in state p
toggleAreaUnit(p) ==
    LET newUnit == IF p.areaUnit = "hectares" THEN "acres" ELSE "hectares"
    IN  [p EXCEPT
           !.areaUnit = newUnit,
           !.webArea = IF p.webArea # Null THEN ConvertTo(newUnit, p.webArea)
                                           ELSE @,
           !.esp32Area = IF p.esp32Area # Null
                         THEN ConvertTo(newUnit, p.esp32Area)
                         ELSE @]

\* lines 139-146: the loop of calculateArea over formattedCoords, pairs
\* [lat, lon], taken on the distances to the first pair
PageShoelaceSum(c) ==
    LET formattedCoords == [i \in 1..Len(c) |->
                              <<c[i].lat - c[1].lat, c[i].lon - c[1].lon>>]
        n == Len(formattedCoords)
        S[i \in 0..n] ==
            IF i = 0 THEN 0
            ELSE LET j == (i % n) + 1
                     added == S[i - 1]
                                + formattedCoords[i][1] * formattedCoords[j][2]
                 IN  added - formattedCoords[j][1] * formattedCoords[i][2]
    IN  S[n]

\* lines 148-155: finalArea in hectares, before line 156 converts to acres
pageHectares(c) == MicroHectares(Abs(PageShoelaceSum(c)))

\* lines 129-170 up to the await: the state after calculateArea has run in
\* state p, the PUT of the rounded area being on its way
pageCalculateArea(p) ==
    IF Len(p.filteredCoordinates) < 3
    THEN [p EXCEPT !.error = "Need at least 3 valid coordinates"]
    ELSE LET finalArea == pageHectares(p.filteredCoordinates)
             roundedArea ==
                 IF p.areaUnit = "acres"
                 THEN ToFixed4(finalArea, 247105, 100000)
                 ELSE ToFixed4(finalArea, 1, 1)
         IN  [p EXCEPT !.webArea = roundedArea, !.putArea = roundedArea]

\* lines 356-367: the onClearCoordinates callback given to the download
\* component; hadPoints is filteredCoordinates.length > 0 in the render
\* the callback belongs to
onClearCoordinates(p, hadPoints) ==
    IF hadPoints
    THEN [p EXCEPT !.coordinates = <<>>, !.filteredCoordinates = <<>>,
                   !.webArea = Null]
    ELSE p

\* ino lines 460-473: "Clear All Coordinates" is confirmed.  Without a
\* field id the callback runs at once; with one, the component calls
\* delete().eq("field_id", fieldId) on table coordinates through its own
\* Supabase client.
handleClearCoordinates ==
    /\ page.clear.pc # "deleting"
    /\ IF page.currentFieldId = Null
       THEN page' = [onClearCoordinates(page, page.filteredCoordinates # <<>>)
                        EXCEPT !.clear = [pc |-> "idle"]]
       ELSE page' = [page EXCEPT !.clear =
                        [pc |-> "deleting", fieldId |-> page.currentFieldId,
                         hadPoints |-> page.filteredCoordinates # <<>>]]

\* ino lines 473-493: the delete returns, with or without an error; the
\* callback runs in both cases
ClearDeleteReturns ==
    /\ page.clear.pc = "deleting"
    /\ \/ /\ dbCoordinates' =
                SelectSeq(dbCoordinates,
                          LAMBDA r : r.field_id # page.clear.fieldId)
          /\ page' = [onClearCoordinates(page, page.clear.hadPoints)
                         EXCEPT !.clear = [pc |-> "cleared"]]
       \/ /\ UNCHANGED dbCoordinates
          /\ page' = [onClearCoordinates(page, page.clear.hadPoints)
                         EXCEPT !.clear = [pc |-> "failed"]]

\* route.ts lines 179-186: the body of the response of a GET
ServerResponse ==
    [coordinates |-> storedCoordinates, esp32Area |-> esp32CalculatedArea,
     webArea |-> lastCalculatedArea, fieldName |-> fieldName,
     tractorInfo |-> tractorInfo, fieldId |-> currentFieldId]

(***************************************************************************)
(* Download and upload of a boundary.  DownloadCoordinates is the          *)
(* component in src/esp32_gps_area_calculator.ino lines 330-560, the       *)
(* uploader is src/components/file-uploader.tsx and the upload page is     *)
(* src/app/upload/page.tsx.  A GeoJSON text is modelled by the document    *)
(* JSON.parse returns for it: JSON.stringify followed by JSON.parse gives  *)
(* back the same arrays, strings and numbers.                              *)
(***************************************************************************)
\* no document has been saved
NoFile == [type |-> "none", features |-> <<>>]

\* ino lines 400-420: a FeatureCollection with one Polygon whose only ring
\* lists [lon, lat] of every point and then of the first point again
formatCoordinatesAsGeoJSON(c, name) ==
    LET ring == [i \in 1..(Len(c) + 1) |->
                   IF i <= Len(c) THEN <<c[i].lon, c[i].lat>>
                                  ELSE <<c[1].lon, c[1].lat>>]
    IN  [type |-> "FeatureCollection",
         features |->
           << [type |-> "Feature",
               properties |-> [name |-> name, pointCount |-> Len(c)],
               geometry |-> [type |-> "Polygon", coordinates |-> <<ring>>]] >>]

parseGeoJsonFile_KeepsLast(geojson) ==
    LET ring == geojson.features[1].geometry.coordinates[1]
    IN  [ok |-> geojson.features # <<>>,
         coordinates |-> [i \in 1..Len(ring) |->
                            [lat |-> ring[i][2], lon |-> ring[i][1]]],
         fieldName |-> geojson.features[1].properties.name]

\* file-uploader.tsx lines 127-165: the first ring of the first feature,
\* each pair read as [lon, lat], without its last pair; ok is FALSE where
\* the function throws
parseGeoJsonFile(geojson) ==
    IF geojson.features = <<>>
    THEN [ok |-> FALSE, coordinates |-> <<>>, fieldName |-> ""]
    ELSE LET feature == geojson.features[1]
         IN  IF /\ feature.geometry.type = "Polygon"
                /\ feature.geometry.coordinates # <<>>
             THEN LET ring == feature.geometry.coordinates[1]
                      arr == [i \in 1..Len(ring) |->
                                [lat |-> ring[i][2], lon |-> ring[i][1]]]
                  IN  [ok |-> TRUE,
                       coordinates |->
                           IF arr = <<>> THEN <<>>
                           ELSE SubSeq(arr, 1, Len(arr) - 1),
                       fieldName |-> feature.properties.name]
             ELSE [ok |-> FALSE, coordinates |-> <<>>, fieldName |-> ""]

\* ino lines 456-458: "Download as GeoJSON" is clicked; with no point the
\* formatter throws on coordinates[0] and nothing is saved
handleDownloadGeoJSON ==
    /\ page.filteredCoordinates # <<>>
    /\ file' = formatCoordinatesAsGeoJSON(page.filteredCoordinates,
                                          page.fieldName)

\* part_002 lines 57-75 on micro-degrees: the loop of calculateShoelaceArea
\* taken on the distances to the first point, and its result in millionths
\* of a hectare
MicroShoelaceSum(c) ==
    LET n == Len(c)
        lat(i) == c[i].lat - c[1].lat
        lon(i) == c[i].lon - c[1].lon
        S[i \in 0..n] ==
            IF i = 0 THEN 0
            ELSE LET j == (i % n) + 1
                     added == S[i - 1] + lat(i) * lon(j)
                 IN  added - lat(j) * lon(i)
    IN  S[n]

calculateShoelaceAreaMicro(c) ==
    IF Len(c) < 3 THEN 0 ELSE MicroHectares(Abs(MicroShoelaceSum(c)))

\* upload/page.tsx lines 65-81, for the shoelace formula
uploadCalculateArea(u, c) ==
    IF Len(c) < 3
    THEN [u EXCEPT !.error = "Need at least 3 coordinates",
                   !.calculatedArea = Null]
    ELSE [u EXCEPT !.calculatedArea =
                       ToFixed4(calculateShoelaceAreaMicro(c), 1, 1),
                   !.error = ""]

\* upload/page.tsx lines 53-63
handleFileProcessed(u, c, name) ==
    LET named == IF name # "" THEN [u EXCEPT !.fieldName = name,
                                             !.newFieldName = name]
                              ELSE u
    IN  uploadCalculateArea([named EXCEPT !.coordinates = c,
                                          !.selectedAlgorithm = "shoelace"],
                            c)

\* upload/page.tsx lines 84-101: "Save" is confirmed; the PUT is sent
\* (the names of the model have no blanks to trim)
saveToDatabase ==
    /\ upload.save.pc \in {"idle", "done"}
    /\ upload.newFieldName # ""
    /\ Len(upload.coordinates) >= 3
    /\ upload' = [upload EXCEPT !.save = [pc |-> "put"]]

\* lines 102-112: the endpoint has handled the PUT and its response, which
\* carries currentFieldId, has arrived
SaveFieldResponse ==
    /\ upload.save.pc = "put"
    /\ PutFieldName(upload.newFieldName)
    /\ upload' = [upload EXCEPT !.save =
                     IF currentFieldId' # Null
                     THEN [pc |-> "coordinates", fieldId |-> currentFieldId']
                     ELSE [pc |-> "idle"]]

\* lines 105-129: the one batch of rows 1..n has been posted and handled
SaveCoordinates ==
    /\ upload.save.pc = "coordinates"
    /\ LET fid == upload.save.fieldId
           coordsToSend == [i \in 1..Len(upload.coordinates) |->
                              [field_id |-> fid,
                               lat |-> upload.coordinates[i].lat,
                               lon |-> upload.coordinates[i].lon,
                               sequence_number |-> i]]
       IN  PostCoordinates(CoordinatesBody(coordsToSend, fid))
    /\ upload' = [upload EXCEPT !.save =
                     [pc |-> IF upload.calculatedArea # Null THEN "area"
                                                             ELSE "done",
                      fieldId |-> upload.save.fieldId]]

\* lines 131-143: the PUT of the area has been handled; the endpoint reads
\* area and ignores the fieldId of the body
SaveArea ==
    /\ upload.save.pc = "area"
    /\ PutArea(upload.calculatedArea)
    /\ upload' = [upload EXCEPT !.save = [pc |-> "done",
                                          fieldId |-> upload.save.fieldId]]

\* file-uploader.tsx lines 45-85: the saved document is chosen and
\* processed with the shoelace formula selected
processFile ==
    /\ file # NoFile
    /\ LET result == parseGeoJsonFile(file)
       IN  IF ~result.ok
           THEN upload' = [upload EXCEPT !.fileError = "Failed to process"]
           ELSE IF Len(result.coordinates) < 3
           THEN upload' = [upload EXCEPT !.fileError = "Not enough"]
           ELSE /\ WithinReach(result.coordinates)
                /\ upload' = handleFileProcessed(
                                 [upload EXCEPT !.fileError = ""],
                                 result.coordinates, result.fieldName)

(***************************************************************************)
(* Specifications                                                          *)
(***************************************************************************)
DeviceInit ==
    /\ gps = NoFix
    /\ coordinates = <<>>
    /\ currentSpeed = 0
    /\ currentHeading = 0
    /\ tractorStatus = "idle"
    /\ isFirstValidCoordinate = TRUE
    /\ lastLat = 0
    /\ lastLon = 0

\* a fields row left in the database by an earlier run of the server
StoredField == [id |-> 1, name |-> "Field 1", esp32_area |-> Null,
                web_area |-> Null, is_active |-> TRUE]

\* route.ts lines 10-23; the database is empty or holds one active field
ServerInit ==
    /\ storedCoordinates = <<>>
    /\ esp32CalculatedArea = Null
    /\ lastCalculatedArea = Null
    /\ fieldName = "Unnamed Field"
    /\ currentFieldId = Null
    /\ tractorInfo = [speed |-> 0, heading |-> 0, status |-> "idle"]
    /\ dbFields \in {<<>>, <<StoredField>>}
    /\ dbCoordinates = <<>>
    /\ dbLogs = <<>>
    /\ posts = [h \in RaceIds |-> IdlePost]
    /\ gets = [pc |-> "idle"]
    /\ request = NoRequest

\* no area utility has been called
AreaIdle ==
    /\ call = "none"
    /\ algorithm = "none"
    /\ calculatedArea = Null
    /\ hull = <<>>

\* page.tsx lines 53-75: the initial state of the Home component
\* (error is "" for null; putArea is the area of the PUT that calculateArea
\* has sent and the endpoint has not handled yet; clear is the position of
\* handleClearCoordinates of the download component)
InitialPage ==
    [coordinates |-> <<>>, filteredCoordinates |-> <<>>,
     esp32Area |-> Null, webArea |-> Null, areaUnit |-> "hectares",
     fieldName |-> "Unnamed Field", newFieldName |-> "",
     tractorInfo |-> [speed |-> 0, heading |-> 0, status |-> "idle"],
     currentFieldId |-> Null, error |-> "", putArea |-> Null,
     clear |-> [pc |-> "idle"]]

PageInit == page = InitialPage

\* upload/page.tsx lines 44-51 and file-uploader.tsx lines 23-27; save is
\* the position of saveToDatabase
UploadInit ==
    upload = [coordinates |-> <<>>, fieldName |-> "Uploaded Field",
              newFieldName |-> "", selectedAlgorithm |-> "shoelace",
              calculatedArea |-> Null, error |-> "", fileError |-> "",
              save |-> [pc |-> "idle"]]

Init ==
    /\ DeviceInit
    /\ ServerInit
    /\ coords = <<>>
    /\ AreaIdle
    /\ PageInit
    /\ file = NoFile
    /\ UploadInit

\* a GPS sentence is decoded by the firmware
GpsFix == (\E fix \in Fixes : processGPSData(fix)) /\ UNCHANGED <<serverVars, clientVars>>

\* the firmware posts its live reading and the handler starts
DeviceSendLive == \E h \in PostIds : sendLiveCoordinates(h)

\* any client posts a live-coordinate body
ClientPostLive ==
    /\ \E h \in PostIds, data \in LiveRequests : PostLive(h, data)
    /\ UNCHANGED <<deviceVars, clientVars>>

PostSelect == (\E h \in PostIds : PostSelectMaxSeq(h)) /\ UNCHANGED <<deviceVars, clientVars>>

PostInsert ==
    (\E h \in PostIds : PostInsertCoordinate(h)) /\ UNCHANGED <<deviceVars, clientVars>>

PostLog == (\E h \in PostIds : PostInsertLog(h)) /\ UNCHANGED <<deviceVars, clientVars>>

Get == GetBegin /\ UNCHANGED <<deviceVars, clientVars>>

GetFields == GetActiveField /\ UNCHANGED <<deviceVars, clientVars>>

GetCoords == GetCoordinates /\ UNCHANGED <<deviceVars, clientVars>>

GetLogs == GetTractorLogs /\ UNCHANGED <<deviceVars, clientVars>>

\* any client posts an area body
ClientPostArea ==
    (\E data \in AreaRequests : PostArea(data)) /\ UNCHANGED <<deviceVars, clientVars>>

\* any client puts an area
ClientPutArea == (\E a \in AreaValues : PutArea(a)) /\ UNCHANGED <<deviceVars, clientVars>>

PutNewField == PutCreateNewField /\ UNCHANGED <<deviceVars, clientVars>>

\* the button is held: the firmware computes its area and uploads it
\* (taken for the rings whose sum fits 32-bit integers)
PressButton ==
    /\ WithinReach(coordinates)
    /\ sendAreaData(calculateArea)

\* an area function is selected and applied
CalculateArea ==
    /\ \E alg \in Algorithms : CalculateWith(alg)
    /\ UNCHANGED <<deviceVars, serverVars, pageVars>>

CalculateHull == HullOfBoundary /\ UNCHANGED <<deviceVars, serverVars, pageVars>>

\* the page polls the endpoint and a response arrives
FetchData ==
    /\ \E data \in Responses : fetchData(data)
    /\ UNCHANGED <<deviceVars, serverVars, areaVars, file, upload>>

\* the unit button of the page is clicked
ToggleAreaUnit ==
    /\ page' = toggleAreaUnit(page)
    /\ UNCHANGED <<deviceVars, serverVars, areaVars, file, upload>>

\* the boundary on the home page is downloaded as GeoJSON
DownloadGeoJSON ==
    /\ handleDownloadGeoJSON
    /\ UNCHANGED <<deviceVars, serverVars, areaVars, page, upload>>

\* the saved document is given to the uploader
ProcessFile ==
    /\ processFile
    /\ UNCHANGED <<deviceVars, serverVars, areaVars, page, file>>

\* "Calculate Area" is clicked on the home page (taken for the boundaries
\* whose sum fits 32-bit integers)
PageCalculateArea ==
    /\ WithinReach(page.filteredCoordinates)
    /\ page' = pageCalculateArea(page)
    /\ UNCHANGED <<deviceVars, serverVars, areaVars, file, upload>>

\* the endpoint handles the PUT that calculateArea sent
PagePutArea ==
    /\ page.putArea # Null
    /\ PutArea(page.putArea)
    /\ page' = [page EXCEPT !.putArea = Null]
    /\ UNCHANGED <<deviceVars, areaVars, file, upload>>

\* any client posts rows to /api/coordinates, while the table holds fewer
\* than MaxStored rows
ClientPostCoordinates ==
    /\ Len(dbCoordinates) < MaxStored
    /\ \E data \in CoordinatesRequests : PostCoordinates(data)
    /\ UNCHANGED <<deviceVars, clientVars>>

\* live POSTs of which two can be suspended at the same time
RacePostLive ==
    /\ \E h \in RaceIds, data \in LiveRequests : PostLive(h, data)
    /\ UNCHANGED <<deviceVars, clientVars>>

RacePostSelect ==
    /\ \E h \in RaceIds : PostSelectMaxSeq(h)
    /\ UNCHANGED <<deviceVars, clientVars>>

RacePostInsert ==
    /\ \E h \in RaceIds : PostInsertCoordinate(h)
    /\ UNCHANGED <<deviceVars, clientVars>>

RacePostLog ==
    /\ \E h \in RaceIds : PostInsertLog(h)
    /\ UNCHANGED <<deviceVars, clientVars>>

\* the page receives the response of the GET that was handled last
PageFetchServer ==
    /\ request = GetRequest
    /\ gets.pc = "idle"
    /\ fetchData(ServerResponse)
    /\ UNCHANGED <<deviceVars, serverVars, areaVars, file, upload>>

\* "Clear All Coordinates" is confirmed on the home page
ClearClick ==
    /\ handleClearCoordinates
    /\ UNCHANGED <<deviceVars, serverVars, areaVars, file, upload>>

ClearReturns ==
    /\ ClearDeleteReturns
    /\ UNCHANGED <<deviceVars, memVars, dbFields, dbLogs, posts, gets,
                   request, areaVars, file, upload>>

\* the steps of saveToDatabase of the upload page
SaveClick ==
    /\ saveToDatabase
    /\ UNCHANGED <<deviceVars, serverVars, areaVars, page, file>>

SavePutField ==
    /\ SaveFieldResponse
    /\ UNCHANGED <<deviceVars, areaVars, page, file>>

SavePostCoordinates ==
    /\ SaveCoordinates
    /\ UNCHANGED <<deviceVars, areaVars, page, file>>

SavePutArea ==
    /\ SaveArea
    /\ UNCHANGED <<deviceVars, areaVars, page, file>>

\* any client asks for the rows of a field to be deleted: no field, the
\* field created first, or another one
ClientDelete ==
    /\ \E fid \in {Null, 1, MaxFields + 1} : Delete(fid)
    /\ UNCHANGED <<deviceVars, clientVars>>

DeviceNext == GpsFix

ServerNext ==
    \/ ClientPostLive
    \/ PostSelect
    \/ PostInsert
    \/ PostLog
    \/ Get
    \/ GetFields
    \/ GetCoords
    \/ GetLogs
    \/ ClientPostArea
    \/ ClientPutArea
    \/ PutNewField

AreaNext == CalculateArea \/ CalculateHull

PageNext == FetchData \/ ToggleAreaUnit

FileNext == DownloadGeoJSON \/ ProcessFile

SaveNext == SaveClick \/ SavePutField \/ SavePostCoordinates \/ SavePutArea

Next ==
    \/ DeviceNext
    \/ DeviceSendLive
    \/ PressButton
    \/ ServerNext
    \/ ClientPostCoordinates
    \/ ClientDelete
    \/ SaveNext
    \/ PageFetchServer
    \/ PageCalculateArea
    \/ PagePutArea
    \/ ClearClick
    \/ ClearReturns
    \/ AreaNext
    \/ PageNext
    \/ FileNext

\* the firmware alone, fed with decoded GPS sentences
DeviceInitAlone == Init /\ dbFields = <<>>

DeviceSpec == DeviceInitAlone /\ [][DeviceNext]_vars

\* the endpoint alone, called by arbitrary clients
ServerSpec == Init /\ [][ServerNext]_vars

\* the area utilities alone, applied to every boundary of the bounded set
AreaInit ==
    /\ DeviceInit
    /\ ServerInit
    /\ dbFields = <<>>
    /\ coords \in Boundaries
    /\ AreaIdle
    /\ PageInit
    /\ file = NoFile
    /\ UploadInit

AreaSpec == AreaInit /\ [][AreaNext]_vars

\* the requests that run to their response, or to their first await,
\* without a database step in between
MemoryNext ==
    \/ ClientPostLive
    \/ ClientPostArea
    \/ ClientPutArea
    \/ PutNewField

MemoryInit == Init /\ dbFields = <<>>

\* the endpoint's memory under the requests of arbitrary clients
MemorySpec == MemoryInit /\ [][MemoryNext]_vars

SessionNext ==
    \/ GpsFix
    \/ PressButton
    \/ PutNewField

\* the device, its area uploads and the PUT that starts a new field
SessionSpec == MemoryInit /\ [][SessionNext]_vars

\* the home page alone, fed with responses of the endpoint
PageSpec == MemoryInit /\ [][PageNext]_vars

\* the boundaries a home page can show: every list of at most MaxPoints
\* points away from the origin
Tracks ==
    UNION { [1..n -> {p \in Points : ~NearOrigin(p.lat, p.lon)}] :
            n \in 0..MaxPoints }

\* the home page after it has fetched boundary b of field 1
PageShowing(b) ==
    [InitialPage EXCEPT !.coordinates = b, !.filteredCoordinates = b,
                        !.fieldName = "Field 1", !.newFieldName = "Field 1",
                        !.currentFieldId = 1]

\* the home page shows a boundary; it is downloaded and uploaded again
FileInit ==
    /\ DeviceInit
    /\ ServerInit
    /\ dbFields = <<>>
    /\ coords = <<>>
    /\ AreaIdle
    /\ \E b \in Tracks :
          page = PageShowing(b)
    /\ file = NoFile
    /\ UploadInit

FileSpec == FileInit /\ [][FileNext]_vars

\* the lists the firmware can hold: consecutive points are at least
\* MIN_DISTANCE_CHANGE apart
DeviceTracks ==
    { b \in Tracks :
        \A i \in 1..(Len(b) - 1) :
            calculateDistance(b[i].lat, b[i].lon, b[i + 1].lat, b[i + 1].lon)
                >= MIN_DISTANCE_CHANGE }

\* the firmware after it has decoded fixes at the points of b, moving
DeviceAfter(b) ==
    IF b = <<>> THEN DeviceInit
    ELSE LET p == b[Len(b)]
         IN  /\ gps = [locValid |-> TRUE, lat |-> p.lat, lon |-> p.lon,
                       speed |-> 5, courseValid |-> TRUE, course |-> 270]
             /\ coordinates = b
             /\ currentSpeed = 5
             /\ currentHeading = 270
             /\ tractorStatus = "moving"
             /\ isFirstValidCoordinate = FALSE
             /\ lastLat = p.lat
             /\ lastLon = p.lon

\* the firmware holds a list and the home page shows the same list; the
\* button of the firmware and the button of the page are pressed
ShoelaceInit ==
    /\ ServerInit
    /\ dbFields = <<>>
    /\ coords = <<>>
    /\ AreaIdle
    /\ file = NoFile
    /\ UploadInit
    /\ \E b \in DeviceTracks : DeviceAfter(b) /\ page = PageShowing(b)

ShoelaceNext == PressButton \/ PageCalculateArea \/ PagePutArea

ShoelaceSpec == ShoelaceInit /\ [][ShoelaceNext]_vars

\* the firmware has decoded the fixes of a list and posts its live reading
\* at every interval; no field is open, so the handler of the POST returns
\* before its first database call
LiveNext == DeviceSendLive

LiveSpec == ShoelaceInit /\ [][LiveNext]_vars

\* rows are posted to /api/coordinates and the boundary is read with GET
BoundaryNext ==
    \/ ClientPostCoordinates
    \/ Get
    \/ GetFields
    \/ GetCoords
    \/ GetLogs

BoundarySpec == Init /\ [][BoundaryNext]_vars

\* GETs open the stored field and live POSTs arrive, two at a time
RaceNext ==
    \/ RacePostLive
    \/ RacePostSelect
    \/ RacePostInsert
    \/ RacePostLog
    \/ Get
    \/ GetFields
    \/ GetCoords
    \/ GetLogs

RaceSpec == Init /\ [][RaceNext]_vars

\* rows 1..n of field 1 holding the points of b
RowsOf(b) == [i \in 1..Len(b) |-> Row(1, b[i], i)]

\* Field 1 is open, its rows hold boundary b, a GET has loaded them and
\* the home page has fetched the response.
OpenFieldInit ==
    /\ DeviceInit
    /\ esp32CalculatedArea = Null
    /\ lastCalculatedArea = Null
    /\ fieldName = "Field 1"
    /\ currentFieldId = 1
    /\ tractorInfo = [speed |-> 0, heading |-> 0, status |-> "idle"]
    /\ dbFields = <<StoredField>>
    /\ dbLogs = <<>>
    /\ posts = [h \in RaceIds |-> IdlePost]
    /\ gets = [pc |-> "idle"]
    /\ request = GetRequest
    /\ coords = <<>>
    /\ AreaIdle
    /\ file = NoFile
    /\ UploadInit
    /\ \E b \in Tracks :
          /\ storedCoordinates = b
          /\ dbCoordinates = RowsOf(b)
          /\ page = PageShowing(b)

\* the boundary is cleared on the home page while the page keeps polling
ClearNext ==
    \/ ClearClick
    \/ ClearReturns
    \/ Get
    \/ GetCoords
    \/ GetLogs
    \/ PageFetchServer

ClearSpec == OpenFieldInit /\ [][ClearNext]_vars

\* the firmware uploads its area while the home page polls, computes its
\* own area and switches units; no field is open
UnitNext ==
    \/ PressButton
    \/ Get
    \/ GetFields
    \/ PageFetchServer
    \/ ToggleAreaUnit
    \/ PageCalculateArea
    \/ PagePutArea

UnitSpec == ShoelaceInit /\ [][UnitNext]_vars

\* a boundary shown on the home page is downloaded, uploaded and saved;
\* the server holds the open field of that boundary, or has been restarted
\* on an empty database
UploadNext == FileNext \/ SaveNext

UploadSpec == (OpenFieldInit \/ FileInit) /\ [][UploadNext]_vars

\* the requests that write the memory of the endpoint, with DELETE
DeleteNext == MemoryNext \/ ClientDelete

DeleteSpec == MemoryInit /\ [][DeleteNext]_vars

Spec == Init /\ [][Next]_vars

(***************************************************************************)
(* Properties of the firmware                                              *)
(***************************************************************************)
\* the point a reading carries
PointOf(fix) == Pt(fix.lat, fix.lon)

\* |lat| < 1e-4 and |lon| < 1e-4, written out with the literals of the claim
InSentinel(p) == p.lat > -100 /\ p.lat < 100 /\ p.lon > -100 /\ p.lon < 100

\* planar distance between p and q below 1e-5 degrees
Closer(p, q) ==
    LET dlat == IF p.lat > q.lat THEN p.lat - q.lat ELSE q.lat - p.lat
        dlon == IF p.lon > q.lon THEN p.lon - q.lon ELSE q.lon - p.lon
    IN  dlat < 10 /\ dlon < 10 /\ dlat * dlat + dlon * dlon < 100

\* the last point of a non-empty boundary
LastOf(boundary) == boundary[Len(boundary)]

\* C1: the device boundary never holds two consecutive points closer than
\* 1e-5 degrees, nor a point inside the origin sentinel.
C1_BoundaryInvariant ==
    /\ \A i \in 1..Len(coordinates) : ~InSentinel(coordinates[i])
    /\ \A i \in 1..Len(coordinates) :
          i < Len(coordinates) => ~Closer(coordinates[i], coordinates[i + 1])

\* a boundary of three points, the last reading being a rejected jitter of
\* its last point
C1_Witness ==
    /\ Len(coordinates) >= 3
    /\ gps.locValid
    /\ PointOf(gps) # LastOf(coordinates)
    /\ Closer(PointOf(gps), LastOf(coordinates))

\* C2: a reading inside the origin sentinel is rejected in every filter
\* state, also when no point has been accepted yet: the filter says no to
\* it, and the step that processes it leaves boundary and filter state
\* alone.  (processGPSData(fix) sets gps' = fix, so gps' is the reading a
\* step processes.)
C2_SentinelRejected ==
    [][/\ \A p \in Points :
            InSentinel(p) => ~isValidCoordinate(p.lat, p.lon).ok
       /\ LET fix == gps'
          IN  (fix.locValid /\ InSentinel(PointOf(fix))
                 /\ processGPSData(fix)) =>
                 UNCHANGED <<coordinates, isFirstValidCoordinate,
                             lastLat, lastLon>>]_vars

\* (0.00005, -0.00003) has been processed as the very first reading
C2_Witness ==
    /\ gps.locValid
    /\ PointOf(gps) = PS
    /\ isFirstValidCoordinate
    /\ coordinates = <<>>

\* C3: once a first point is accepted, a reading outside the sentinel is
\* rejected exactly when it is closer than 1e-5 degrees to the last accepted
\* point, and is otherwise appended and becomes the last accepted point;
\* after (10.000005, 20.000003), (10, 20) is rejected and (10.01, 20.01) is
\* accepted.
C3_MinimumMovement ==
    [][LET fix == gps'
       IN  (/\ fix.locValid
            /\ ~InSentinel(PointOf(fix))
            /\ coordinates # <<>>
            /\ processGPSData(fix)) =>
              /\ Closer(PointOf(fix), LastOf(coordinates)) =>
                    /\ coordinates' = coordinates
                    /\ <<lastLat', lastLon'>> = <<lastLat, lastLon>>
              /\ ~Closer(PointOf(fix), LastOf(coordinates)) =>
                    /\ coordinates' = Append(coordinates, PointOf(fix))
                    /\ <<lastLat', lastLon'>> = <<fix.lat, fix.lon>>
              /\ LastOf(coordinates) = PA =>
                    /\ PointOf(fix) = PB => coordinates' = coordinates
                    /\ PointOf(fix) = PC =>
                          coordinates' = Append(coordinates, PC)]_vars

\* (10.01, 20.01) was accepted after (10.000005, 20.000003), and later
\* (10, 20) was rejected as the reading after (10.000005, 20.000003)
C3_Witness ==
    /\ Len(coordinates) >= 3
    /\ coordinates[1] = PA
    /\ coordinates[2] = PC
    /\ LastOf(coordinates) = PA
    /\ gps.locValid
    /\ PointOf(gps) = PB

\* C4: while no point has been accepted, the first reading outside the
\* sentinel is accepted whatever its position, becomes the last accepted
\* point and consumes the first-point flag; the flag is set exactly while
\* the boundary is empty and never comes back.
C4_FirstPointAccepted ==
    [][/\ isFirstValidCoordinate <=> coordinates = <<>>
       /\ ~isFirstValidCoordinate => ~isFirstValidCoordinate'
       /\ LET fix == gps'
          IN  (/\ fix.locValid
               /\ ~InSentinel(PointOf(fix))
               /\ isFirstValidCoordinate
               /\ processGPSData(fix)) =>
                 /\ coordinates' = <<PointOf(fix)>>
                 /\ <<lastLat', lastLon'>> = <<fix.lat, fix.lon>>
                 /\ ~isFirstValidCoordinate']_vars

\* the first accepted point is (0.00005, 20.0), which has a latitude below
\* 1e-4, and a second point has gone through the minimum-movement test
C4_Witness ==
    /\ Len(coordinates) >= 2
    /\ coordinates[1] = PE
    /\ ~isFirstValidCoordinate
    /\ <<lastLat, lastLon>> = <<LastOf(coordinates).lat,
                                LastOf(coordinates).lon>>

\* C5: only an acceptance changes the filter state: a step that appends
\* nothing leaves lastLat, lastLon and the first-point flag as they were, so
\* the last accepted point stays the last stored point and every reading
\* closer than 1e-5 degrees to it is rejected, however many came before.
C5_RejectionChangesNothing ==
    [][/\ coordinates' = coordinates =>
             UNCHANGED <<isFirstValidCoordinate, lastLat, lastLon>>
       /\ coordinates # <<>> =>
             /\ Pt(lastLat, lastLon) = LastOf(coordinates)
             /\ \A p \in Points :
                   Closer(p, LastOf(coordinates)) =>
                      ~isValidCoordinate(p.lat, p.lon).ok]_vars

\* (10, 20) is stored and the reading just rejected, (9.999995, 19.999996),
\* is more than 1e-5 away from (10.000005, 20.000003), which is still
\* rejected
C5_Witness ==
    /\ coordinates = <<PB>>
    /\ gps.locValid
    /\ PointOf(gps) = PH
    /\ Pt(lastLat, lastLon) = PB
    /\ ~isValidCoordinate(PA.lat, PA.lon).ok

\* C6: the boundary is append-only and is the sequence of accepted readings
\* in arrival order: a step appends the reading it processes when the filter
\* accepts it and changes nothing of the boundary otherwise.
C6_AppendOnly ==
    [][LET fix == gps'
       IN  IF processGPSData(fix) /\ fix.locValid
              /\ isValidCoordinate(fix.lat, fix.lon).ok
           THEN coordinates' = coordinates \o <<PointOf(fix)>>
           ELSE coordinates' = coordinates]_vars

\* three readings were accepted, the last one a return to the first point
C6_Witness ==
    /\ Len(coordinates) >= 3
    /\ coordinates[1] = PC
    /\ coordinates[2] = PE
    /\ coordinates[3] = PC
    /\ PointOf(gps) = PC

\* C7: the status is "moving" exactly when the stored speed is at least
\* 0.5 km/h and "idle" otherwise.
C7_StatusFromSpeed ==
    /\ tractorStatus \in {"idle", "moving"}
    /\ tractorStatus = "moving" <=> currentSpeed >= 5

\* a reading with a speed of exactly 0.5 km/h has been processed
C7_Witness ==
    /\ gps.locValid
    /\ gps.speed = 5
    /\ currentSpeed = 5
    /\ tractorStatus = "moving"

(***************************************************************************)
(* Properties of the motion state, on the device and on the server         *)
(***************************************************************************)
\* C8: the stored status is always the one derived from the stored speed,
\* on the device and in the server's tractorInfo; a status sent with a fix
\* never decides it.
C8_StatusNeverTrusted ==
    /\ tractorStatus = "moving" <=> currentSpeed >= 5
    /\ tractorInfo.status = "moving" <=> tractorInfo.speed >= 5

\* C9: every ingested fix that carries a speed sets the stored speed to it,
\* whether the point of the fix is accepted, rejected as origin sentinel or
\* rejected as a duplicate: on the device for every reading with a valid
\* location, on the server for every live-coordinate body with a speed.
\* (PostLive(h, data) sets request' = data.)
C9_SpeedAlwaysUpdated ==
    [][/\ LET fix == gps'
          IN  (fix.locValid /\ processGPSData(fix)) =>
                 currentSpeed' = fix.speed
       /\ LET data == request'
          IN  \A h \in PostIds :
                 (/\ data.kind = "live"
                  /\ data.speed # Undefined
                  /\ PostLive(h, data)) =>
                    tractorInfo'.speed = data.speed]_vars

\* C10: a reading without a valid course leaves the heading as it was while
\* speed and status follow the reading; a reading with a valid course sets
\* the heading to it; nothing else changes the heading.
C10_HeadingRetained ==
    [][LET fix == gps'
       IN  /\ (fix.locValid /\ ~fix.courseValid /\ processGPSData(fix)) =>
                 /\ currentHeading' = currentHeading
                 /\ currentSpeed' = fix.speed
                 /\ tractorStatus' = IF fix.speed >= 5 THEN "moving"
                                                       ELSE "idle"
           /\ (fix.locValid /\ fix.courseValid /\ processGPSData(fix)) =>
                 currentHeading' = fix.course
           /\ currentHeading' # currentHeading =>
                 fix.locValid /\ fix.courseValid]_vars

\* a heading of 90 degrees has survived a reading without a valid course
\* that brought a new speed of 0.5 km/h
C10_Witness ==
    /\ currentHeading = 90
    /\ gps.locValid
    /\ ~gps.courseValid
    /\ gps.course = 0
    /\ currentSpeed = 5
    /\ tractorStatus = "moving"

C12_NewFieldStartsClean ==
    [][(request' = PutNewFieldRequest /\ Len(dbFields') > Len(dbFields)) =>
          /\ storedCoordinates' = <<>>
          /\ coordinates' = <<>>
          /\ isFirstValidCoordinate']_vars

(***************************************************************************)
(* Properties of the area utilities                                        *)
(***************************************************************************)
\* the selected function has been applied to coords under the tag alg
Applied(alg) == call = "area" /\ algorithm = alg

\* the ring c started k places later
Rotate(c, k) == [i \in 1..Len(c) |-> c[((i + k - 1) % Len(c)) + 1]]

Reverse(c) == [i \in 1..Len(c) |-> c[Len(c) + 1 - i]]

\* twice the signed area of the triangle a, b, p: positive when p lies to
\* the left of the line from a to b (longitude across, latitude up)
Side(a, b, p) ==
    (b.lon - a.lon) * (p.lat - a.lat) - (b.lat - a.lat) * (p.lon - a.lon)

\* p lies on the segment from a to b
OnSegment(a, b, p) ==
    /\ Side(a, b, p) = 0
    /\ (p.lat - a.lat) * (p.lat - b.lat) <= 0
    /\ (p.lon - a.lon) * (p.lon - b.lon) <= 0

\* the segments a-b and c-d have a point in common
SegmentsMeet(a, b, c, d) ==
    \/ /\ Side(a, b, c) * Side(a, b, d) < 0
       /\ Side(c, d, a) * Side(c, d, b) < 0
    \/ OnSegment(a, b, c)
    \/ OnSegment(a, b, d)
    \/ OnSegment(c, d, a)
    \/ OnSegment(c, d, b)

NoRepeatedPoint(c) == \A i, j \in 1..Len(c) : c[i] = c[j] => i = j

\* c is a simple ring: no point is repeated, two edges that follow each
\* other meet in their common corner only, and two other edges do not meet
SimpleRing(c) ==
    LET n == Len(c)
        nxt(i) == (i % n) + 1
    IN  /\ NoRepeatedPoint(c)
        /\ \A i \in 1..n :
              /\ ~OnSegment(c[i], c[nxt(i)], c[nxt(nxt(i))])
              /\ ~OnSegment(c[nxt(i)], c[nxt(nxt(i))], c[i])
        /\ \A i, j \in 1..n :
              (j # i /\ j # nxt(i) /\ i # nxt(j)) =>
                 ~SegmentsMeet(c[i], c[nxt(i)], c[j], c[nxt(j)])

\* c lists the corners of a convex polygon in ring order, in either
\* direction, possibly with further points on its edges
ConvexRing(c) ==
    LET n == Len(c)
        nxt(i) == (i % n) + 1
    IN  /\ NoRepeatedPoint(c)
        /\ \/ \A i, k \in 1..n : Side(c[i], c[nxt(i)], c[k]) >= 0
           \/ \A i, k \in 1..n : Side(c[i], c[nxt(i)], c[k]) <= 0

\* C13: below three points the function selected under each of the four
\* tags returns 0.
C13_ShortBoundaryIsZero ==
    (/\ call = "area"
     /\ algorithm \in {"shoelace", "haversine", "convexHull", "delaunay"}
     /\ Len(coords) < 3) => calculatedArea = 0

\* the haversine function has returned 0 for two different points
C13_Witness ==
    /\ Applied("haversine")
    /\ coords = <<D11, D12>>
    /\ calculatedArea = 0

\* C14 as stated: for every boundary of three or more points the hull
\* area is at least the shoelace area.
C14_HullCoversEveryBoundary ==
    (Applied("convexHull") /\ Len(coords) >= 3) =>
        calculatedArea >= calculateShoelaceArea(coords)

\* C14: for every simple ring of three or more points, convex or not, the
\* hull area is at least the shoelace area.
C14_HullCoversSimpleRing ==
    (Applied("convexHull") /\ Len(coords) >= 3 /\ SimpleRing(coords)) =>
        calculatedArea >= calculateShoelaceArea(coords)

\* the hull of a ring with a dent is larger than the ring
C14_Witness ==
    /\ Applied("convexHull")
    /\ coords = <<D11, D12, D22, D33, D21>>
    /\ SimpleRing(coords)
    /\ calculatedArea > calculateShoelaceArea(coords)
    /\ calculateShoelaceArea(coords) > 0

\* C15: for the corners of a convex polygon in ring order, in either
\* direction and from any start, with or without points on its edges, the
\* hull area equals the shoelace area.
C15_ConvexRingSameArea ==
    (Applied("convexHull") /\ ConvexRing(coords)) =>
        calculatedArea = calculateShoelaceArea(coords)

\* a triangle listed clockwise from its top corner with a point on an edge
C15_Witness ==
    /\ Applied("convexHull")
    /\ coords = <<D33, D22, D11, D12>>
    /\ ConvexRing(coords)
    /\ calculatedArea = calculateShoelaceArea(coords)
    /\ calculatedArea > 0

\* C16: the shoelace area of a boundary is the shoelace area of each of its
\* rotations and of its reversal.
C16_ShoelaceRingInvariant ==
    Applied("shoelace") =>
        /\ \A k \in 1..Len(coords) :
              calculateShoelaceArea(Rotate(coords, k)) = calculatedArea
        /\ calculateShoelaceArea(Reverse(coords)) = calculatedArea

\* a ring without symmetry and with a positive area
C16_Witness ==
    /\ Applied("shoelace")
    /\ coords = <<D11, D12, D22, D33, D21>>
    /\ calculatedArea > 0
    /\ Rotate(coords, 2) = <<D22, D33, D21, D11, D12>>
    /\ Reverse(coords) = <<D21, D33, D22, D12, D11>>

\* C17: for more than three points the returned ring consists of input
\* points, starts at the point of lowest latitude and, among those, lowest
\* longitude, turns strictly left at every corner (a ring of fewer than
\* three corners has none), and has every input point inside or on it.
C17_HullIsConvexRing ==
    (call = "hull" /\ Len(coords) > 3) =>
        LET n == Len(hull)
            nxt(i) == (i % n) + 1
        IN  /\ n >= 1
            /\ \A i \in 1..n : \E k \in 1..Len(coords) : hull[i] = coords[k]
            /\ \A k \in 1..Len(coords) :
                  \/ hull[1].lat < coords[k].lat
                  \/ /\ hull[1].lat = coords[k].lat
                     /\ hull[1].lon <= coords[k].lon
            /\ n >= 3 =>
                  \A i \in 1..n :
                     Side(hull[i], hull[nxt(i)], hull[nxt(nxt(i))]) > 0
            /\ \A k \in 1..Len(coords) :
                  IF n >= 3
                  THEN \A i \in 1..n :
                          Side(hull[i], hull[nxt(i)], coords[k]) >= 0
                  ELSE OnSegment(hull[1], hull[n], coords[k])

\* five points, one of them inside and none of them first in ring order:
\* the hull is the quadrilateral around them, from the lowest corner
C17_Witness ==
    /\ call = "hull"
    /\ coords = <<D22, D33, D12, D21, D11>>
    /\ hull = <<D11, D12, D33, D21>>

\* C18: the function selected under "delaunay" returns the value the
\* function selected under "convexHull" returns for the same boundary.
C18_DelaunayIsHullArea ==
    Applied("delaunay") =>
        calculatedArea = getAreaCalculationFunction("convexHull", coords)

\* a ring with a dent and a point inside its hull
C18_Witness ==
    /\ Applied("delaunay")
    /\ coords = <<D11, D22, D12, D33, D21>>
    /\ calculatedArea > calculateShoelaceArea(coords)

\* the unit square of the example
UnitSquare == <<D11, D12, D22, D21>>

\* C19 as stated: for (1,1), (1,2), (2,2), (2,1) half the shoelace sum is
\* 1 square degree and the shoelace and hull areas are 1,239,207.6...
\* hectares.
C19_UnitSquareStated ==
    (/\ call = "area"
     /\ algorithm \in {"shoelace", "convexHull"}
     /\ coords = UnitSquare) =>
        /\ Abs(ShoelaceSum(coords)) = 2
        /\ calculatedArea >= 123920760
        /\ calculatedArea < 123920770

\* C19: for (1,1), (1,2), (2,2), (2,1) half the shoelace sum is 1 square
\* degree and the shoelace and hull areas are 111.32^2 * 100 =
\* 1,239,214.24 hectares.
C19_UnitSquareArea ==
    (/\ call = "area"
     /\ algorithm \in {"shoelace", "convexHull"}
     /\ coords = UnitSquare) =>
        /\ Abs(ShoelaceSum(coords)) = 2
        /\ calculatedArea = 123921424

\* the hull area of the unit square has been computed
C19_Witness ==
    /\ Applied("convexHull")
    /\ coords = UnitSquare
    /\ calculatedArea = 123921424

(***************************************************************************)
(* Properties of the home page                                             *)
(***************************************************************************)
\* C20: converting an area to the other unit and back returns the value it
\* had: after two clicks on the unit button the page shows the webArea and
\* the esp32Area it showed before.  (Values are whole millionths below
\* 1e9, so a relative tolerance of 1e-9 allows no difference.)
C20_ToggleTwiceRestores ==
    LET twice == toggleAreaUnit(toggleAreaUnit(page))
    IN  /\ twice.areaUnit = page.areaUnit
        /\ twice.webArea = page.webArea
        /\ twice.esp32Area = page.esp32Area

C22_GeoJsonRoundTrip ==
    /\ file # NoFile =>
          /\ parseGeoJsonFile(file).ok
          /\ parseGeoJsonFile(file).coordinates = page.filteredCoordinates
    /\ upload.coordinates # <<>> =>
          upload.coordinates = page.filteredCoordinates

C22_Witness ==
    /\ file = formatCoordinatesAsGeoJSON(<<PA, PC, PB>>, "Field 1")
    /\ upload.coordinates = <<PA, PC, PB>>
    /\ upload.fieldName = "Field 1"

(***************************************************************************)
(* C23: the three shoelace implementations                                 *)
(***************************************************************************)
\* C23: on a list of at least three points the firmware's calculateArea,
\* calculateShoelaceArea of the web utilities and the loop of the home
\* page's calculateArea (in hectares, before rounding) return the same
\* area; the area in the body of sendAreaData is the shoelace area of the
\* coordinate list of that body; and the area the page shows in hectares is
\* that area rounded to four decimals.
C23_SameShoelace ==
    /\ (Len(coordinates) >= 3 /\ WithinReach(coordinates)) =>
          /\ calculateArea = calculateShoelaceAreaMicro(coordinates)
          /\ pageHectares(coordinates) = calculateArea
    /\ request.kind = "area" =>
          /\ request.coordinates = coordinates
          /\ request.area = calculateShoelaceAreaMicro(request.coordinates)
    /\ (page.webArea # Null /\ page.areaUnit = "hectares") =>
          page.webArea =
              ToFixed4(calculateShoelaceAreaMicro(page.filteredCoordinates),
                       1, 1)

C23_Witness ==
    /\ request.kind = "area"
    /\ Len(request.coordinates) >= 3
    /\ request.area > 0
    /\ page.webArea = ToFixed4(request.area, 1, 1)
    /\ page.webArea > 0

(***************************************************************************)
(* C24: live fixes and the coordinate filter                               *)
(***************************************************************************)
\* C24: when only the firmware posts live fixes, no two consecutive points
\* of storedCoordinates are closer than 0.00001 degrees.
C24_LiveFixesFiltered ==
    \A i \in 1..(Len(storedCoordinates) - 1) :
        calculateDistance(storedCoordinates[i].lat, storedCoordinates[i].lon,
                          storedCoordinates[i + 1].lat,
                          storedCoordinates[i + 1].lon)
            >= MIN_DISTANCE_CHANGE

(***************************************************************************)
(* C25: the boundary GET returns                                           *)
(***************************************************************************)
\* C25: whatever requests have been handled, the boundary a GET returns
\* holds no point with |lat| < 0.0001 and |lon| < 0.0001.
C25_GetWithoutSentinel ==
    (request = GetRequest /\ gets.pc = "idle") =>
        \A i \in 1..Len(storedCoordinates) :
            ~NearOrigin(storedCoordinates[i].lat, storedCoordinates[i].lon)

(***************************************************************************)
(* C26: sequence numbers under interleaved live POSTs                      *)
(***************************************************************************)
\* C26: the rows of the current field carry pairwise different sequence
\* numbers, and a row with a smaller sequence number holds a fix that
\* arrived (was pushed to storedCoordinates) before the fix of a row with
\* a larger one.
C26_SequenceFollowsArrival ==
    LET rows == CoordRowsOf(currentFieldId)
        n == Len(rows)
        at(i) == Pt(rows[i].lat, rows[i].lon)
    IN  /\ \A i, j \in 1..n :
              i # j => rows[i].sequence_number # rows[j].sequence_number
        /\ \A i, j \in 1..n :
              rows[i].sequence_number < rows[j].sequence_number =>
                  \E a, b \in 1..Len(storedCoordinates) :
                      /\ a < b
                      /\ storedCoordinates[a] = at(i)
                      /\ storedCoordinates[b] = at(j)

(***************************************************************************)
(* C27: "Clear All Coordinates"                                            *)
(***************************************************************************)
\* C27: once the delete of the current field's rows has succeeded and no
\* new fix has been ingested, a GET that reads the rows of the field
\* returns an empty boundary.
C27_ClearedStaysEmpty ==
    [][(/\ page.clear.pc = "cleared"
        /\ gets.pc = "coordinates"
        /\ gets'.pc = "logs") => storedCoordinates' = <<>>]_vars

(***************************************************************************)
(* C28: the unit of the areas on the home page                             *)
(***************************************************************************)
\* the area of the boundary on the page, rounded as the page rounds, in
\* unit u
ShownIn(u, c) ==
    IF u = "acres" THEN ToFixed4(pageHectares(c), 247105, 100000)
                   ELSE ToFixed4(pageHectares(c), 1, 1)

\* C28: an area that appears on the home page while the selected unit stays
\* the same is expressed in that unit: the firmware's area (which the
\* endpoint holds in hectares) is shown in areaUnit, and so is the area of
\* the boundary the page shows.
C28_AreasInSelectedUnit ==
    [][page'.areaUnit = page.areaUnit =>
         /\ page'.esp32Area # page.esp32Area =>
               page'.esp32Area =
                   IF page.areaUnit = "acres"
                   THEN ConvertTo("acres", esp32CalculatedArea)
                   ELSE esp32CalculatedArea
         /\ page'.webArea # page.webArea =>
               page'.webArea = ShownIn(page.areaUnit,
                                       page'.filteredCoordinates)]_vars

(***************************************************************************)
(* C29: saving an uploaded boundary                                        *)
(***************************************************************************)
\* C29: when saveToDatabase has completed, the rows of the field it was
\* given are exactly the points of the uploaded boundary, in order, with
\* sequence numbers 1..n, and the saved area is the web_area of that field.
C29_SavedFieldIsUpload ==
    upload.save.pc = "done" =>
        LET fid == upload.save.fieldId
            rows == CoordRowsOf(fid)
        IN  /\ Len(rows) = Len(upload.coordinates)
            /\ \A i \in 1..Len(rows) :
                  /\ rows[i].sequence_number = i
                  /\ rows[i].lat = upload.coordinates[i].lat
                  /\ rows[i].lon = upload.coordinates[i].lon
            /\ \A k \in 1..Len(dbFields) :
                  dbFields[k].id = fid =>
                      dbFields[k].web_area = upload.calculatedArea

(***************************************************************************)
(* C30: DELETE /api/sensor-data                                            *)
(***************************************************************************)
\* the boundary and the two areas the endpoint holds in memory
BoundaryAndAreas ==
    <<storedCoordinates, esp32CalculatedArea, lastCalculatedArea>>

\* C30: a DELETE never changes tractorInfo, fieldName or currentFieldId.
\* Without a fieldId it is answered 400, and a failed delete 500; in both
\* cases, and after a successful delete for a field that is not the
\* current one, the boundary and the areas in memory are what they were.
\* They change only in a successful DELETE for the current field, which
\* empties the boundary and sets both areas to null.
C30_DeleteOnlyForCurrentField ==
    [][request'.kind = "DELETE" =>
         /\ UNCHANGED <<tractorInfo, fieldName, currentFieldId>>
         /\ request'.fieldId = Null => request'.status = 400
         /\ request'.status \in {400, 500} =>
               UNCHANGED <<BoundaryAndAreas, dbVars>>
         /\ (request'.status = 200 /\ request'.fieldId # currentFieldId) =>
               UNCHANGED BoundaryAndAreas
         /\ (request'.status = 200 /\ request'.fieldId = currentFieldId) =>
               BoundaryAndAreas' = <<(<<>>), Null, Null>>]_vars

\* a DELETE for another field has succeeded and the boundary and the
\* firmware's area of the current field are still in memory
C30_Witness ==
    /\ request.kind = "DELETE"
    /\ request.status = 200
    /\ currentFieldId # Null
    /\ request.fieldId # currentFieldId
    /\ storedCoordinates # <<>>
    /\ esp32CalculatedArea # Null

====
